---- MODULE Spec2Model ----
(***************************************************************************)
(* A model of sqs-replay (src/src/main.rs): the `send` subcommand, which   *)
(* runs replay_messages, the batched receive -> send -> delete loop.       *)
(*                                                                         *)
(* The SQS service is outside the repository.  Each client call            *)
(* (receive_message, send_message, delete_message) is one step of the      *)
(* model whose result (Ok or Err, and for a receive the returned batch) is *)
(* chosen by the environment.  The program is single-threaded, so its      *)
(* state is its local variables, its position (pc) and its exit code.      *)
(* The remaining variables record the calls issued so far.                 *)
(***************************************************************************)
EXTENDS Integers, Sequences, FiniteSets

(***************************************************************************)
(* Option<T>: None is the empty tuple, Some(x) the one-element tuple.      *)
(***************************************************************************)
None == <<>>
Some(x) == <<x>>
OptionOf(S) == {None} \cup {Some(x) : x \in S}
unwrap_or(o, default) == IF o = None THEN default ELSE o[1]

(***************************************************************************)
(* Program constants.                                                      *)
(***************************************************************************)
MaxNumberOfMessages == 10
WaitTimeSeconds == 3
VisibilityTimeout == 5

(***************************************************************************)
(* Bounds of the model.                                                    *)
(***************************************************************************)
\* receive calls explored per run (the loop itself has no upper bound)
MaxReceives == 3
\* queue URLs a list_queues answer holds at most
MaxQueueUrls == 2

(***************************************************************************)
(* Values of the inputs.                                                   *)
(***************************************************************************)
SourceUrls == {"https://sqs/source"}
DestUrls == {"https://sqs/dest"}
GroupIds == {"g1", "g2"}
\* a message received again (after a failed delete) keeps its message id
MessageIds == {"id1", "id2"}
\* "<empty>" is an ordinary body a message may carry
Bodies == {"a", "<empty>"}

\* the receipt handle SQS issues for the idx-th message of batch batch_no:
\* a handle names one delivery, so each delivery has its own
ReceiptHandle(b, i) == <<b, i>>

\* rusoto_sqs::Message as delivered at position i of batch b: every field
\* is an Option
Messages(b, i) ==
    [message_id : OptionOf(MessageIds),
     receipt_handle : {None, Some(ReceiptHandle(b, i))},
     body : OptionOf(Bodies)]

\* the URLs a ListQueuesResult may hold
QueueUrls == {"https://sqs/q1", "https://sqs/q2"}

NoMessage == [message_id |-> None, receipt_handle |-> None, body |-> None]
NoCall == [op |-> "none"]

VARIABLES
    source_url,         \* replay_messages' arguments
    dest_url,
    message_group_id,
    pc,                 \* replay_messages: "while", "for", "match",
                        \* "delete", "done" (returned), "exit"
                        \* list_queues: "list", "listed", "list_exit"
    more_messages,
    batch_no,
    count,              \* messages.len() of the batch being processed
    idx,                \* position of m in the batch (0: none taken yet)
    m,                  \* the message the for loop is at
    exit_code,          \* None while running, Some(code) once terminated
    uuids_generated,    \* calls of Uuid::new_v4() so far
    n_receive,          \* receive_message calls issued
    n_send,             \* send_message calls issued
    n_delete,           \* delete_message calls issued
    received,           \* the lists the receive calls answered, in order
    call,               \* the client call the last step issued (request
                        \* and result), NoCall when it issued none
    first_send,         \* the arguments of the run's first send_message
    dedup_ids,          \* deduplication ids carried by the send calls
    delete_failed,      \* some delete call of the run has failed
    printed,            \* the lines list_queues has printed
    \* the SQS service, when its queues are followed (QueueSpec)
    queues,             \* queue URL -> the messages the queue holds
    source_at_start,    \* the messages the source held when the run began
    visible,            \* the source's messages when the receive answered
    delivered           \* the messages of the answer taken so far, each
                        \* with the stored message it is a delivery of

vars == <<source_url, dest_url, message_group_id, pc, more_messages, batch_no,
          count, idx, m, exit_code, uuids_generated, n_receive, n_send,
          n_delete, received, call, first_send, dedup_ids, delete_failed,
          printed, queues, source_at_start, visible, delivered>>

args == <<source_url, dest_url, message_group_id>>
history == <<n_receive, n_send, n_delete, received, first_send, dedup_ids,
             delete_failed>>
sqs == <<queues, source_at_start, visible, delivered>>

(***************************************************************************)
(* main: the `send` subcommand calls replay_messages with the three        *)
(* required arguments; the loop starts with more_messages = true and       *)
(* batch_no = 1.  The `list-queues` subcommand calls list_queues.          *)
(***************************************************************************)
Subcommands == {"send", "list-queues"}

Main(subcommand, source, dest, group) ==
    /\ source_url = source
    /\ dest_url = dest
    /\ message_group_id = group
    /\ pc = IF subcommand = "send" THEN "while" ELSE "list"
    /\ printed = <<>>
    /\ more_messages = TRUE
    /\ batch_no = 1
    /\ count = 0
    /\ idx = 0
    /\ m = NoMessage
    /\ exit_code = None
    /\ uuids_generated = 0
    /\ n_receive = 0
    /\ n_send = 0
    /\ n_delete = 0
    /\ received = <<>>
    /\ call = NoCall
    /\ first_send = NoCall
    /\ dedup_ids = {}
    /\ delete_failed = FALSE

\* the service is left open: any answer is possible, no queue is followed
Untracked == <<>>
Tracked == DOMAIN queues # {}

Init ==
    /\ \E subcommand \in Subcommands, source \in SourceUrls,
          dest \in DestUrls, group \in GroupIds :
            Main(subcommand, source, dest, group)
    /\ queues = Untracked
    /\ source_at_start = {}
    /\ visible = {}
    /\ delivered = <<>>

(***************************************************************************)
(* The queues behind the client.  A stored message has an id and a body    *)
(* (SQS stores no message without a body); a message a send call stored    *)
(* also has the deduplication id and the group id of its request.  The     *)
(* source starts with any set of messages, the destination is empty; the   *)
(* two command-line URLs may name the same queue.                          *)
(***************************************************************************)
NewMessageId == "new"

StoredMessages ==
    [message_id : MessageIds, body : Bodies,
     message_deduplication_id : {None}, message_group_id : {None}]

SourceContents ==
    {S \in SUBSET StoredMessages :
        \A x, y \in S : x.message_id = y.message_id => x = y}

QueueInit ==
    /\ \E subcommand \in Subcommands, source \in SourceUrls,
          dest \in DestUrls \cup SourceUrls, group \in GroupIds :
            Main(subcommand, source, dest, group)
    /\ \E S \in SourceContents :
        /\ queues = [u \in {source_url, dest_url} |->
                        IF u = source_url THEN S ELSE {}]
        /\ source_at_start = S
    /\ visible = {}
    /\ delivered = <<>>

\* a receive answers with messages the queue holds, possibly fewer than it
\* holds and fewer than asked for
SQS_CanAnswer(r) ==
    Tracked /\ r.status = "Ok" /\ r.messages # None
        => r.messages[1] <= Cardinality(queues[source_url])

SQS_Receive ==
    IF Tracked
    THEN /\ visible' = queues[source_url]
         /\ delivered' = <<>>
         /\ UNCHANGED <<queues, source_at_start>>
    ELSE UNCHANGED sqs

\* the stored messages whose delivery the for loop has taken
Origins == {delivered[i].origin : i \in 1..Len(delivered)}

\* msg is a delivery of the stored message s: what it carries is s's, and
\* any of its fields may be absent
IsDeliveryOf(msg, s) ==
    /\ msg.message_id \in {None, Some(s.message_id)}
    /\ msg.body \in {None, Some(s.body)}

SQS_Deliver(msg) ==
    IF Tracked
    THEN /\ \E s \in visible \ Origins :
            /\ IsDeliveryOf(msg, s)
            /\ delivered' = Append(delivered, [message |-> msg, origin |-> s])
         /\ UNCHANGED <<queues, source_at_start, visible>>
    ELSE UNCHANGED sqs

\* a successful send stores one message on the queue of the request, unless
\* the queue already holds one with the same deduplication id
SQS_Send(req, result) ==
    IF Tracked
    THEN /\ queues' =
                IF /\ result = "Ok"
                   /\ \A x \in queues[req.queue_url] :
                        x.message_deduplication_id
                            # req.message_deduplication_id
                THEN [queues EXCEPT ![req.queue_url] = @ \cup
                        {[message_id |-> NewMessageId,
                          body |-> req.message_body,
                          message_deduplication_id |->
                                req.message_deduplication_id,
                          message_group_id |-> req.message_group_id]}]
                ELSE queues
         /\ UNCHANGED <<source_at_start, visible, delivered>>
    ELSE UNCHANGED sqs

\* a successful delete removes the message the receipt handle was delivered
\* for from the queue that issued the handle
SQS_Delete(req, result) ==
    IF Tracked
    THEN /\ queues' =
                IF result = "Ok" /\ req.queue_url = source_url
                THEN [queues EXCEPT ![req.queue_url] = @ \
                        {delivered[i].origin : i \in
                            {j \in 1..Len(delivered) :
                                delivered[j].message.receipt_handle
                                    = Some(req.receipt_handle)}}]
                ELSE queues
         /\ UNCHANGED <<source_at_start, visible, delivered>>
    ELSE UNCHANGED sqs

(***************************************************************************)
(* The requests the program builds.                                        *)
(***************************************************************************)
ReceiveMessageRequest(src) ==
    [queue_url |-> src,
     max_number_of_messages |-> Some(MaxNumberOfMessages),
     wait_time_seconds |-> Some(WaitTimeSeconds),
     visibility_timeout |-> Some(VisibilityTimeout),
     receive_request_attempt_id |-> None]

SendMessageRequest(dst, message_id, body, dedup_id, group_id) ==
    [queue_url |-> dst,
     message_body |-> body,
     message_deduplication_id |-> Some(dedup_id),
     message_group_id |-> Some(group_id)]

DeleteMessageRequest(src, receipt_handle) ==
    [queue_url |-> src, receipt_handle |-> receipt_handle]

(***************************************************************************)
(* What the environment can answer.  A receive answers Err, Ok with no     *)
(* list (messages: None) or Ok with a list of 0..10 messages; the list's   *)
(* elements are revealed one by one as the for loop reaches them (the loop *)
(* reads each element once and never looks ahead).                         *)
(***************************************************************************)
CallResults == {"Ok", "Err"}

ReceiveResults ==
    {[status |-> "Err", messages |-> None]}
        \cup {[status |-> "Ok", messages |-> None]}
        \cup {[status |-> "Ok", messages |-> Some(n)] : n \in 0..MaxNumberOfMessages}

(***************************************************************************)
(* The decisions replay_messages takes.                                    *)
(***************************************************************************)
\* mutant: the test loses "count < 10"
MoreMessagesAfter_OnlyEmptyStops(c) == ~(c = 0)

\* mutant: an empty list is taken for "nothing yet" and polled again
MoreMessagesAfter_EmptyContinues(c) == ~(c # 0 /\ c < MaxNumberOfMessages)

\* mutant: "count < 10" is written "count <= 10"
MoreMessagesAfter_FullStops(c) == ~(c = 0 \/ c <= MaxNumberOfMessages)

\* if count == 0 || count < 10 { more_messages = false; }
MoreMessagesAfter(c) == ~(c = 0 \/ c < MaxNumberOfMessages)

\* mutant: the receipt handle is not matched on
Disposition_HandleUnchecked(msg) ==
    IF msg.message_id = None THEN "ignore" ELSE "transfer"

\* if let Some(message_id) = &m.message_id { match &m.receipt_handle {..} }
Disposition(msg) ==
    IF msg.message_id = None THEN "ignore"
    ELSE IF msg.receipt_handle = None THEN "skip"
    ELSE "transfer"

\* let body = &m.body.clone().unwrap_or(String::from("<empty>"));
Body(msg) == unwrap_or(msg.body, "<empty>")

\* Uuid::new_v4(): 122 random bits.  The model identifies a generated value
\* with the call that generated it: two calls never return the same value.
Uuid_new_v4 == uuids_generated + 1

\* mutant: message_id and group_id, both Strings, change places
SendMessageArgs_GroupSwapped(msg) ==
    [dest_url |-> dest_url,
     message_id |-> message_group_id,
     body |-> Body(msg),
     dedup_id |-> Uuid_new_v4,
     group_id |-> msg.message_id[1]]

\* mutant: the message id serves as deduplication id
SendMessageArgs_DedupIsMessageId(msg) ==
    [dest_url |-> dest_url,
     message_id |-> msg.message_id[1],
     body |-> Body(msg),
     dedup_id |-> msg.message_id[1],
     group_id |-> message_group_id]

\* mutant: the copy is sent to the queue it was received from
SendMessageArgs_ToSource(msg) ==
    [dest_url |-> source_url,
     message_id |-> msg.message_id[1],
     body |-> Body(msg),
     dedup_id |-> Uuid_new_v4,
     group_id |-> message_group_id]

\* mutant: the message id is sent in the place of the body
SendMessageArgs_BodyIsMessageId(msg) ==
    [dest_url |-> dest_url,
     message_id |-> msg.message_id[1],
     body |-> msg.message_id[1],
     dedup_id |-> Uuid_new_v4,
     group_id |-> message_group_id]

\* the arguments of the call send_message(client, dest_url, ...)
SendMessageArgs(msg) ==
    [dest_url |-> dest_url,
     message_id |-> msg.message_id[1],
     body |-> Body(msg),
     dedup_id |-> Uuid_new_v4,
     group_id |-> message_group_id]

\* the arguments of the call delete_message(client, source_url, receipt_handle)
DeleteMessageArgs(msg) ==
    [source_url |-> source_url, receipt_handle |-> msg.receipt_handle[1]]

\* mutant: a failed receive is tried again
AfterReceiveErr_Retry == [pc |-> "while", exit_code |-> None]

\* mutant: a failed send is only printed, as a failed delete is
AfterSend_ErrIgnored(result) == [pc |-> "delete", exit_code |-> None]

\* mutant: a failed delete is fatal, as a failed send is
AfterDelete_ErrFatal(result) ==
    IF result = "Ok"
    THEN [pc |-> "for", exit_code |-> None]
    ELSE [pc |-> "exit", exit_code |-> Some(3)]

\* mutant: a failed delete is tried again
AfterDelete_ErrRetried(result) ==
    IF result = "Ok"
    THEN [pc |-> "for", exit_code |-> None]
    ELSE [pc |-> "delete", exit_code |-> None]

\* where each call's result leads: the next position and the exit code
AfterReceiveErr == [pc |-> "exit", exit_code |-> Some(3)]

AfterSend(result) ==
    IF result = "Ok"
    THEN [pc |-> "delete", exit_code |-> None]
    ELSE [pc |-> "exit", exit_code |-> Some(3)]

AfterDelete(result) == [pc |-> "for", exit_code |-> None]

(***************************************************************************)
(* while more_messages { client.receive_message(..).sync() ... }           *)
(***************************************************************************)
ReceiveMessage ==
    /\ pc = "while"
    /\ more_messages
    /\ n_receive < MaxReceives
    /\ \E r \in ReceiveResults :
        /\ SQS_CanAnswer(r)
        /\ SQS_Receive
        /\ n_receive' = n_receive + 1
        /\ call' = [op |-> "receive",
                    req |-> ReceiveMessageRequest(source_url),
                    result |-> r]
        /\ IF r.status = "Err"
           THEN /\ pc' = AfterReceiveErr.pc
                /\ exit_code' = AfterReceiveErr.exit_code
                /\ UNCHANGED <<more_messages, batch_no, count, idx, m, received>>
           ELSE IF r.messages = None
           THEN /\ more_messages' = FALSE
                /\ batch_no' = batch_no + 1
                /\ received' = Append(received, r.messages)
                /\ pc' = "while"
                /\ UNCHANGED <<count, idx, m, exit_code>>
           ELSE /\ count' = r.messages[1]
                /\ more_messages' = MoreMessagesAfter(r.messages[1])
                /\ received' = Append(received, r.messages)
                /\ idx' = 0
                /\ pc' = "for"
                /\ UNCHANGED <<batch_no, m, exit_code>>
    /\ UNCHANGED <<args, uuids_generated, n_send, n_delete, first_send,
                   dedup_ids, delete_failed, printed>>

\* the while condition is false: replay_messages returns, main returns
Return ==
    /\ pc = "while"
    /\ ~more_messages
    /\ pc' = "done"
    /\ exit_code' = Some(0)
    /\ UNCHANGED <<args, more_messages, batch_no, count, idx, m,
                   uuids_generated, history>>
    /\ call' = NoCall
    /\ UNCHANGED <<printed, sqs>>

(***************************************************************************)
(* for m in messages.iter() { ... }                                        *)
(***************************************************************************)
NextMessage ==
    /\ pc = "for"
    /\ idx < count
    /\ idx' = idx + 1
    /\ m' \in Messages(batch_no, idx + 1)
    /\ SQS_Deliver(m')
    /\ pc' = "match"
    /\ UNCHANGED <<args, more_messages, batch_no, count, exit_code,
                   uuids_generated, history>>
    /\ call' = NoCall
    /\ UNCHANGED printed

\* mutant: the for loop is left as soon as more_messages is false
EndFor_LastBatchCut ==
    /\ pc = "for"
    /\ (idx = count \/ ~more_messages)
    /\ batch_no' = batch_no + 1
    /\ count' = 0
    /\ idx' = 0
    /\ m' = NoMessage
    /\ pc' = "while"
    /\ UNCHANGED <<args, more_messages, exit_code, uuids_generated, history>>
    /\ call' = NoCall
    /\ UNCHANGED <<printed, sqs>>

\* the iterator is exhausted: batch_no += 1, back to the while condition
EndFor ==
    /\ pc = "for"
    /\ idx = count
    /\ batch_no' = batch_no + 1
    /\ count' = 0
    /\ idx' = 0
    /\ m' = NoMessage
    /\ pc' = "while"
    /\ UNCHANGED <<args, more_messages, exit_code, uuids_generated, history>>
    /\ call' = NoCall
    /\ UNCHANGED <<printed, sqs>>

\* message_id is None: the if let has no else, nothing is done or printed
IgnoreMessage ==
    /\ pc = "match"
    /\ Disposition(m) = "ignore"
    /\ pc' = "for"
    /\ UNCHANGED <<args, more_messages, batch_no, count, idx, m, exit_code,
                   uuids_generated, history>>
    /\ call' = NoCall
    /\ UNCHANGED <<printed, sqs>>

\* receipt_handle is None: "Didn't receive receipt handle ... Continuing"
SkipMessage ==
    /\ pc = "match"
    /\ Disposition(m) = "skip"
    /\ pc' = "for"
    /\ UNCHANGED <<args, more_messages, batch_no, count, idx, m, exit_code,
                   uuids_generated, history>>
    /\ call' = NoCall
    /\ UNCHANGED <<printed, sqs>>

(***************************************************************************)
(* send_message: one send call; Err is fatal (exit 3)                      *)
(***************************************************************************)
SendMessage ==
    /\ pc = "match"
    /\ Disposition(m) = "transfer"
    /\ \E result \in CallResults :
        LET a == SendMessageArgs(m)
            req == SendMessageRequest(a.dest_url, a.message_id, a.body,
                                      a.dedup_id, a.group_id)
        IN  /\ uuids_generated' = uuids_generated + 1
            /\ n_send' = n_send + 1
            /\ call' = [op |-> "send", req |-> req, result |-> result]
            /\ first_send' = IF n_send = 0 THEN a ELSE first_send
            /\ dedup_ids' = dedup_ids \cup {a.dedup_id}
            /\ SQS_Send(req, result)
            /\ pc' = AfterSend(result).pc
            /\ exit_code' = AfterSend(result).exit_code
    /\ UNCHANGED <<args, more_messages, batch_no, count, idx, m, n_receive,
                   n_delete, received, delete_failed, printed>>

(***************************************************************************)
(* delete_message: one delete call; Err is printed and nothing else        *)
(***************************************************************************)
DeleteMessage ==
    /\ pc = "delete"
    /\ \E result \in CallResults :
        LET a == DeleteMessageArgs(m)
            req == DeleteMessageRequest(a.source_url, a.receipt_handle)
        IN  /\ n_delete' = n_delete + 1
            /\ call' = [op |-> "delete", req |-> req, result |-> result]
            /\ delete_failed' = (delete_failed \/ result = "Err")
            /\ SQS_Delete(req, result)
            /\ pc' = AfterDelete(result).pc
            /\ exit_code' = AfterDelete(result).exit_code
    /\ UNCHANGED <<args, more_messages, batch_no, count, idx, m,
                   uuids_generated, n_receive, n_send, received, first_send,
                   dedup_ids, printed>>

(***************************************************************************)
(* list_queues: one list call; prints the URLs of Some(urls), "No queues"  *)
(* for None; Err is fatal (exit 2)                                         *)
(***************************************************************************)
RECURSIVE SeqsUpTo(_, _)
SeqsUpTo(S, n) ==
    IF n = 0 THEN {<<>>}
    ELSE SeqsUpTo(S, n - 1)
            \cup {Append(q, x) : q \in {r \in SeqsUpTo(S, n - 1) : Len(r) = n - 1},
                                 x \in S}

ListQueuesResults ==
    {[status |-> "Err", queue_urls |-> None]}
        \cup {[status |-> "Ok", queue_urls |-> None]}
        \cup {[status |-> "Ok", queue_urls |-> Some(urls)] :
                    urls \in SeqsUpTo(QueueUrls, MaxQueueUrls)}

\* what list_queues prints for an Ok answer
ListOutput(queue_urls) ==
    IF queue_urls = None THEN <<"No queues">> ELSE queue_urls[1]

ListQueues ==
    /\ pc = "list"
    /\ \E r \in ListQueuesResults :
        /\ call' = [op |-> "list_queues", result |-> r]
        /\ IF r.status = "Err"
           THEN /\ pc' = "list_exit"
                /\ exit_code' = Some(2)
                /\ printed' = printed
           ELSE /\ pc' = "listed"
                /\ exit_code' = Some(0)
                /\ printed' = printed \o ListOutput(r.queue_urls)
    /\ UNCHANGED <<args, more_messages, batch_no, count, idx, m,
                   uuids_generated, history, sqs>>

Next ==
    \/ ListQueues
    \/ ReceiveMessage
    \/ Return
    \/ NextMessage
    \/ EndFor
    \/ IgnoreMessage
    \/ SkipMessage
    \/ SendMessage
    \/ DeleteMessage

Spec == Init /\ [][Next]_vars

\* the same program, the queues behind the client followed
QueueSpec == QueueInit /\ [][Next]_vars

TypeOK ==
    /\ pc \in {"while", "for", "match", "delete", "done", "exit",
              "list", "listed", "list_exit"}
    /\ more_messages \in BOOLEAN
    /\ count \in 0..MaxNumberOfMessages
    /\ idx \in 0..count
    /\ exit_code \in OptionOf({0, 2, 3})

(***************************************************************************)
(* Properties of a run.                                                    *)
(***************************************************************************)
Terminated == ~ENABLED Next

\* the size of the batch a receive answered; no list counts as no message
BatchSize(messages) == IF messages = None THEN 0 ELSE messages[1]
LastBatchSize == BatchSize(received[Len(received)])

SendFailed == call.op = "send" /\ call.result = "Err"
ReceiveFailed == call.op = "receive" /\ call.result.status = "Err"
DeleteFailed == call.op = "delete" /\ call.result = "Err"

\* C1: once the send call for a fetched message has failed the run is over
\* with exit code 3: no delete call was issued for that message (every
\* delete so far belongs to an earlier, successful send) and no call of any
\* kind can follow.
C1_FatalOnSendFailure ==
    SendFailed =>
        /\ exit_code = Some(3)
        /\ pc = "exit"
        /\ n_delete = n_send - 1
        /\ Terminated

\* a send fails in the middle of a batch after which more would be fetched
C1_Witness ==
    /\ SendFailed
    /\ n_send >= 2
    /\ idx < count
    /\ more_messages
    /\ exit_code = Some(3)

\* C2: every batch received before the last one is full (10 messages), a
\* further receive is issued only after a full batch, every receive call
\* that did not fail is one batch, and the run returns only after a batch
\* smaller than 10: the receive calls go up to and including the first
\* short batch.
C2_BatchTermination ==
    /\ \A i \in 1..(Len(received) - 1) :
            BatchSize(received[i]) = MaxNumberOfMessages
    /\ n_receive = Len(received) + (IF ReceiveFailed THEN 1 ELSE 0)
    /\ (pc = "while" /\ more_messages /\ received # <<>>)
            => LastBatchSize = MaxNumberOfMessages
    /\ pc = "done" => (received # <<>> /\ LastBatchSize < MaxNumberOfMessages)

\* batch sizes [10, 10, 7]: the run has returned after exactly 3 receives
C2_Witness ==
    /\ received = <<Some(10), Some(10), Some(7)>>
    /\ pc = "done"
    /\ n_receive = 3

\* C3: when the first receive returns no message (an empty list or no
\* list), it is the only receive call, no send and no delete call is
\* issued, the loop is not continued and the run ends with exit code 0.
C3_EmptySource ==
    (received # <<>> /\ BatchSize(received[1]) = 0) =>
        /\ n_receive = 1
        /\ n_send = 0
        /\ n_delete = 0
        /\ ~more_messages
        /\ pc \in {"for", "while", "done"}
        /\ IF pc = "done" THEN exit_code = Some(0)
           ELSE exit_code = None /\ ~Terminated

\* the first receive answered an empty list and the run has returned
C3_Witness ==
    /\ received = <<Some(0)>>
    /\ pc = "done"
    /\ exit_code = Some(0)
    /\ n_receive = 1
    /\ n_send = 0

\* C4: the step taken for a fetched message without receipt handle issues
\* no call (no send, no delete), does not end the run and leaves the loop
\* at the same batch position, from where the next message is taken; such
\* a message never blocks the run.
C4_SkipOnMissingToken ==
    /\ []((pc = "match" /\ m.receipt_handle = None) => ~Terminated)
    /\ [][(pc = "match" /\ m.receipt_handle = None) =>
            /\ call' = NoCall
            /\ n_send' = n_send
            /\ n_delete' = n_delete
            /\ exit_code' = None
            /\ pc' = "for"
            /\ UNCHANGED <<idx, count, more_messages, batch_no>>]_vars

\* a message with an id and no handle was skipped, the batch has more
C4_Witness ==
    /\ pc = "for"
    /\ m.message_id # None
    /\ m.receipt_handle = None
    /\ idx >= 1
    /\ idx < count
    /\ call = NoCall
    /\ exit_code = None

\* C5: a failed delete does not end the run: the step of a delete call
\* leads to the same position whatever its result, with the loop's
\* variables untouched; exit code 3 only ever follows a failed receive or
\* send, and a run that returns has exit code 0.
C5_DeleteFailureRecoverable ==
    /\ [](DeleteFailed => (exit_code = None /\ pc = "for"))
    /\ [](exit_code = Some(3) => (ReceiveFailed \/ SendFailed))
    /\ [](pc = "done" => exit_code = Some(0))
    /\ [][pc = "delete" =>
            /\ pc' = "for"
            /\ exit_code' = None
            /\ UNCHANGED <<idx, count, more_messages, batch_no, m>>]_vars

\* deletes failed, later batches were still fetched, the run returned 0
C5_Witness ==
    /\ delete_failed
    /\ pc = "done"
    /\ exit_code = Some(0)
    /\ n_receive >= 2
    /\ n_delete >= 2

\* C6: once a receive call has failed the run is over with exit code 3: no
\* call of any kind can follow, in particular no second attempt.
C6_ReceiveFailureFatal ==
    ReceiveFailed =>
        /\ exit_code = Some(3)
        /\ pc = "exit"
        /\ Terminated

\* the second receive fails after a batch that was transferred
C6_Witness ==
    /\ ReceiveFailed
    /\ n_receive = 2
    /\ n_send >= 1
    /\ exit_code = Some(3)

\* C7: every send call carries the group id the run was started with.
C7_GroupConsistency ==
    /\ call.op = "send" => call.req.message_group_id = Some(message_group_id)
    /\ n_send >= 1 => first_send.group_id = message_group_id

\* a send in the second batch, at the third position, after other sends
C7_Witness ==
    /\ call.op = "send"
    /\ n_send >= 2
    /\ batch_no = 2
    /\ idx = 3
    /\ call.req.message_group_id = Some(message_group_id)

\* C8: the send calls of a run carry pairwise distinct deduplication ids
\* (there are as many distinct ids as send calls), given that Uuid::new_v4
\* never returns the same value twice.
C8_UniqueDedupId ==
    /\ Cardinality(dedup_ids) = n_send
    /\ (call.op = "send" /\ n_send >= 2) =>
            call.req.message_deduplication_id # Some(first_send.dedup_id)

\* the message sent first in batch 1 is received again in batch 2 and sent
\* again: same message id, same body, same group id
C8_Witness ==
    /\ call.op = "send"
    /\ batch_no = 2
    /\ n_send > idx
    /\ m.message_id = Some(first_send.message_id)
    /\ call.req.message_body = first_send.body
    /\ call.req.message_group_id = Some(first_send.group_id)
    /\ call.req.message_deduplication_id # Some(first_send.dedup_id)

\* C9: the body of every send call equals the body of the fetched message
\* the send is issued for, an absent body included.
C9_ContentPreserved ==
    call.op = "send" => Some(call.req.message_body) = m.body

\* C10: every message of a batch that carries a receipt handle is sent:
\* when the loop is done with such a message, the step before was the
\* delete call that follows its successful send.
C10_EveryTokenMessageSent ==
    (pc = "for" /\ idx >= 1 /\ m.receipt_handle # None) =>
        /\ call.op = "delete"
        /\ Some(call.req.receipt_handle) = m.receipt_handle

\* C12: list_queues prints every returned URL in the returned order, prints
\* "No queues" whenever no URL is returned (no list or an empty list), and
\* ends with exit code 2 when the list call fails.
C12_QueueEnumerator ==
    call.op = "list_queues" =>
        IF call.result.status = "Err"
        THEN exit_code = Some(2) /\ pc = "list_exit"
        ELSE IF call.result.queue_urls \in {None, Some(<<>>)}
        THEN printed = <<"No queues">>
        ELSE printed = call.result.queue_urls[1]

\* what the code does for C12: an empty list prints nothing
C12_AsCoded ==
    call.op = "list_queues" =>
        IF call.result.status = "Err"
        THEN exit_code = Some(2) /\ pc = "list_exit" /\ printed = <<>>
        ELSE IF call.result.queue_urls = None
        THEN printed = <<"No queues">>
        ELSE printed = call.result.queue_urls[1]

\* C14: messages are taken in the order of the batch, one position at a
\* time; a delete is issued only right after the successful send for the
\* same message, with that message's receipt handle; a send is issued only
\* when every earlier send has had its delete call, and carries the body of
\* the message at the current position: sends to the destination follow
\* the order of the received messages.
C14_PerMessageSequencing ==
    /\ [](pc = "delete" => (call.op = "send" /\ call.result = "Ok"))
    /\ [][\/ batch_no' = batch_no + 1
          \/ (batch_no' = batch_no /\ idx' \in {idx, idx + 1})]_vars
    /\ [][idx' = idx + 1 =>
            m'.receipt_handle \in {None, Some(ReceiptHandle(batch_no, idx'))}]_vars
    /\ [][n_send' # n_send =>
            /\ pc = "match"
            /\ n_delete = n_send
            /\ call'.op = "send"
            /\ UNCHANGED <<m, idx, batch_no>>
            /\ m.body # None => Some(call'.req.message_body) = m.body]_vars
    /\ [][n_delete' # n_delete =>
            /\ call.op = "send"
            /\ call.result = "Ok"
            /\ call'.op = "delete"
            /\ UNCHANGED <<m, idx, batch_no>>
            /\ Some(call'.req.receipt_handle) = m.receipt_handle]_vars

\* the third message of a batch has been sent, its delete is due, the two
\* before it were sent and deleted
C14_Witness ==
    /\ pc = "delete"
    /\ idx = 3
    /\ n_send = 3
    /\ n_delete = 2
    /\ call.op = "send"

\* C15: a fetched message is matched once and causes at most one send call
\* and at most one delete call; the delete calls issued are as many as the
\* successful sends (less the one whose delete is due), and every delete
\* carries the receipt handle of the message just sent.
C15_ConsumedOnce ==
    /\ [](n_delete = n_send - (IF pc = "delete" \/ SendFailed THEN 1 ELSE 0))
    /\ [](call.op = "delete" =>
            /\ Some(call.req.receipt_handle) = m.receipt_handle
            /\ call.req.queue_url = source_url)
    /\ [][pc' = "match" => (pc = "for" /\ idx' = idx + 1)]_vars
    /\ [][n_send' # n_send =>
            (n_send' = n_send + 1 /\ pc = "match" /\ pc' # "match")]_vars
    /\ [][n_delete' # n_delete =>
            (n_delete' = n_delete + 1 /\ pc = "delete" /\ pc' = "for")]_vars

\* a run over two batches has returned: as many deletes as sends, some of
\* the deletes failed
C15_Witness ==
    /\ pc = "done"
    /\ n_receive = 2
    /\ n_send >= 3
    /\ n_delete = n_send
    /\ delete_failed

\* C16: while a batch of fewer than 10 messages is processed the flag is
\* already cleared, the next message can still be taken, every message
\* taken is sent (and then deleted) or skipped, and the batch is left only
\* when all its messages were taken or a send has failed.
C16_LastBatchProcessed ==
    /\ []((pc \in {"for", "match", "delete"} /\ count < MaxNumberOfMessages)
            => ~more_messages)
    /\ []((pc = "for" /\ idx < count) => ENABLED NextMessage)
    /\ [][(pc \in {"for", "match", "delete"}
                /\ pc' \notin {"for", "match", "delete"}) =>
            \/ (pc = "for" /\ idx = count /\ pc' = "while")
            \/ (pc = "match" /\ pc' = "exit" /\ call'.op = "send"
                    /\ call'.result = "Err")]_vars
    /\ [][pc = "match" =>
            \/ (pc' = "for" /\ call' = NoCall)
            \/ (pc' \in {"delete", "exit"} /\ call'.op = "send")]_vars
    /\ [][pc = "delete" => (pc' = "for" /\ call'.op = "delete")]_vars

\* the only batch had 7 messages: all 7 were sent and deleted before the
\* loop was left
C16_Witness ==
    /\ received = <<Some(7)>>
    /\ pc = "while"
    /\ ~more_messages
    /\ n_send = 7
    /\ n_delete = 7

\* C17 as claimed: after an empty batch and after a full batch the run
\* issues one more receive call before it returns.
C17_ExtraReceiveAtBoundary ==
    pc = "done" =>
        \A i \in 1..Len(received) :
            BatchSize(received[i]) \in {0, MaxNumberOfMessages}
                => n_receive > i

\* C17 as amended: after a full batch of 10 the loop cannot return and
\* issues one more receive call; after an empty batch (or no list) no
\* further receive call is issued: an empty batch is the run's last.
C17_ExtraReceiveAfterFullBatch ==
    /\ \A i \in 1..Len(received) :
        /\ BatchSize(received[i]) = 0 => (i = Len(received) /\ n_receive = i)
        /\ (pc = "done" /\ BatchSize(received[i]) = MaxNumberOfMessages)
                => n_receive > i
    /\ (pc = "while" /\ received # <<>>
            /\ LastBatchSize = MaxNumberOfMessages)
            => (more_messages /\ ~ENABLED Return)
    /\ (pc = "while" /\ received # <<>> /\ LastBatchSize = 0)
            => (~more_messages /\ ~ENABLED ReceiveMessage)

\* the source held exactly 10 messages: the second receive is empty
C17_Witness ==
    /\ received = <<Some(10), Some(0)>>
    /\ pc = "done"
    /\ n_receive = 2

\* C18: the run is over only after a batch of fewer than 10 messages or a
\* failed receive or send; as long as every batch is full and no receive
\* or send fails the run is not over and, back at the loop head, only a
\* further receive can follow; once a short batch was received every step
\* brings the run closer to its end and the run cannot stop before it.
RunOver == pc \in {"done", "exit"}
ShortBatch == received # <<>> /\ LastBatchSize < MaxNumberOfMessages
AllBatchesFull ==
    \A i \in 1..Len(received) : BatchSize(received[i]) = MaxNumberOfMessages
StepsLeft ==
    3 * (count - idx)
        + (CASE pc = "match" -> 2
             [] pc = "delete" -> 1
             [] pc = "for" -> 0
             [] pc = "while" -> -1
             [] pc = "done" -> -2
             [] OTHER -> -3)

C18_TerminationCondition ==
    /\ [](RunOver => (ShortBatch \/ ReceiveFailed \/ SendFailed))
    /\ []((ReceiveFailed \/ SendFailed) => RunOver)
    /\ []((pc \notin {"list", "listed", "list_exit"} /\ AllBatchesFull
                /\ ~ReceiveFailed /\ ~SendFailed) =>
            /\ ~RunOver
            /\ pc = "while" => (more_messages /\ ~ENABLED Return))
    /\ []((ShortBatch /\ ~RunOver) => ENABLED Next)
    /\ [][(ShortBatch /\ ~RunOver) => StepsLeft' < StepsLeft]_vars

\* every receive so far answered 10 messages, nothing failed, and the loop
\* is about to receive again
C18_Witness ==
    /\ n_receive = MaxReceives
    /\ AllBatchesFull
    /\ pc = "while"
    /\ more_messages
    /\ n_delete = MaxReceives * MaxNumberOfMessages
    /\ delete_failed

(***************************************************************************)
(* Properties of a run over followed queues (QueueSpec).                   *)
(***************************************************************************)
\* the message an Ok send with these arguments stores
Copy(a) ==
    [message_id |-> NewMessageId,
     body |-> a.body,
     message_deduplication_id |-> Some(a.dedup_id),
     message_group_id |-> Some(a.group_id)]

\* one batch of two fetched messages, the first with a receipt handle (and,
\* as a Fetched Message of the scenario has them, an identity and a body),
\* the second without; both have been taken by the loop
TwoMessageScenario ==
    /\ Tracked
    /\ received = <<Some(2)>>
    /\ Len(delivered) = 2
    /\ delivered[1].message.receipt_handle # None
    /\ delivered[1].message.message_id # None
    /\ delivered[1].message.body # None
    /\ delivered[2].message.receipt_handle = None

\* C11: in the scenario the run issues one receive, one send (the body of
\* the first message, one new deduplication id, the group id of the command
\* line, to the destination) and one delete (the handle of the first
\* message: unless the delete failed the first message is off the source);
\* the second message stays on the source; the run goes on to its end, and
\* its end is exit code 0.
C11_EndToEndScenario ==
    TwoMessageScenario =>
        /\ n_receive = 1
        /\ ~more_messages
        /\ n_send = 1
        /\ n_delete = 1
        /\ first_send.body = delivered[1].origin.body
        /\ first_send.dest_url = dest_url
        /\ first_send.group_id = message_group_id
        /\ dedup_ids = {first_send.dedup_id}
        /\ Copy(first_send) \in queues[dest_url]
        /\ Copy(first_send) \notin source_at_start
        /\ delivered[2].origin \in queues[source_url]
        /\ ~delete_failed => delivered[1].origin \notin queues[source_url]
        /\ pc # "exit"
        /\ pc = "done" => exit_code = Some(0)
        /\ pc # "done" => ENABLED Next

\* the scenario has run to its end with distinct queues
C11_Witness ==
    /\ TwoMessageScenario
    /\ pc = "done"
    /\ source_url # dest_url
    /\ ~delete_failed
    /\ queues[source_url] = {delivered[2].origin}
    /\ queues[dest_url] = {Copy(first_send)}

\* a fetched message of the batch was skipped: it had no receipt handle
SkippedMessage ==
    \E i \in 1..Len(delivered) : delivered[i].message.receipt_handle = None

\* C13: when the run has returned after a batch smaller than 10, no message
\* was skipped, no delete failed and nothing was added to the source (the
\* destination is another queue), the source holds no messages.
C13_ExhaustionOnStop ==
    (/\ Tracked
     /\ pc = "done"
     /\ ShortBatch
     /\ received[Len(received)] # None
     /\ ~SkippedMessage
     /\ ~delete_failed
     /\ source_url # dest_url)
        => queues[source_url] = {}

\* s is on the source, or the destination holds a message with s's body
KeptOrCopied(s) ==
    \/ s \in queues[source_url]
    \/ \E c \in queues[dest_url] : c.body = s.body

\* C19: in every state of a run, also after a fatal exit, every message the
\* source held at the start is still on the source or has a copy with the
\* same body on the destination.
C19_NoMessageLoss ==
    Tracked => \A s \in source_at_start : KeptOrCopied(s)

\* what holds of C19: a message leaves the source only by a successful
\* delete that follows its successful send, and a message fetched with its
\* body is never lost
C19_RemovedOnlyAfterSend ==
    /\ [][Tracked /\ queues[source_url] \ queues'[source_url] # {} =>
            /\ call.op = "send" /\ call.result = "Ok"
            /\ call'.op = "delete" /\ call'.result = "Ok"
            /\ call'.req.receipt_handle = m.receipt_handle[1]
            /\ \E i \in 1..Len(delivered) :
                /\ delivered[i].message = m
                /\ queues[source_url] \ queues'[source_url]
                        \subseteq {delivered[i].origin}]_vars
    /\ [](Tracked =>
            \A s \in source_at_start :
                (\A i \in 1..Len(delivered) :
                    delivered[i].origin = s =>
                        delivered[i].message.body # None)
                    => KeptOrCopied(s))

\* receive and delete calls name the source, send calls the destination
CallsKeepRoles ==
    /\ call.op \in {"receive", "delete"} => call.req.queue_url = source_url
    /\ call.op = "send" => call.req.queue_url = dest_url

\* the step removes nothing from the destination and adds nothing to the
\* source
RolesFrame ==
    /\ queues[dest_url] \subseteq queues'[dest_url]
    /\ queues'[source_url] \subseteq queues[source_url]

\* the step is the skip of a message without receipt handle, a receive, or
\* a delete that failed
NoEffectStep ==
    \/ pc = "match" /\ m.receipt_handle = None
    \/ call'.op = "receive"
    \/ call'.op = "delete" /\ call'.result = "Err"

\* C20: receive and delete calls go to the source endpoint only, send calls
\* to the destination endpoint only; no step removes a message from the
\* destination or adds one to the source; a skipped message, a receive and
\* a failed delete leave both queues as they were.
C20_QueueRolesFixed ==
    /\ []CallsKeepRoles
    /\ [][Tracked => RolesFrame]_vars
    /\ [][Tracked /\ NoEffectStep => queues' = queues]_vars

\* C20 as it holds: the frame is that of a run whose source and destination
\* URLs name different queues
C20_QueueRolesFixedDistinct ==
    /\ []CallsKeepRoles
    /\ [][Tracked /\ source_url # dest_url => RolesFrame]_vars
    /\ [][Tracked /\ NoEffectStep => queues' = queues]_vars

\* between different queues a message has been moved: its copy is on the
\* destination, the delete has just taken it off the source
C20_Witness ==
    /\ Tracked
    /\ source_url # dest_url
    /\ call.op = "delete"
    /\ call.result = "Ok"
    /\ call.req.queue_url = source_url
    /\ queues[dest_url] # {}
    /\ queues[source_url] # source_at_start
    /\ queues[source_url] \subseteq source_at_start

====
